---------------------------- MODULE Spec2Model ----------------------------
(***************************************************************************)
(* Tic-tac-toe with minimax (src/tic/tictactoe.py).                        *)
(*                                                                         *)
(* A board is a list of three row lists; board[i][j] is X, O or EMPTY.     *)
(* Two views of the program are modelled:                                  *)
(*   - the board functions as functions of board VALUES (player, actions,  *)
(*     result, winner, terminal, utility, max_value, min_value), and       *)
(*   - the calls a driver makes: result on board OBJECTS (rows are heap    *)
(*     cells, so that sharing between input and output is observable) and  *)
(*     minimax as a loop whose enumeration order of actions(board) is      *)
(*     arbitrary (Python iterates a set).                                  *)
(***************************************************************************)
EXTENDS Integers, FiniteSets

VARIABLES
  heap,         \* row objects: address -> row (a list of three cells)
  cur,          \* the driver's board object: its three row addresses
  out,          \* the board object the last result call returned, or NoBoard
  raised,       \* TRUE when the last result call raised ValueError
  legal,        \* history: every successful result call so far was made on a non-terminal board
  board,        \* the board value minimax is called on
  pc,           \* position of the minimax call: "idle", "loop", "returned", "raised"
  todo,         \* actions of actions(board) the for loop has not yet enumerated
  best_value,   \* minimax's local best_value
  best_action,  \* minimax's local best_action
  ret           \* what the last minimax call returned

apiVars == <<heap, cur, out, raised, legal>>
searchVars == <<board, pc, todo, best_value, best_action, ret>>
vars == <<heap, cur, out, raised, legal, board, pc, todo, best_value, best_action, ret>>

---------------------------------------------------------------------------
(* Constants of the program. *)

X == "X"
O == "O"
None == "None"
EMPTY == None

\* math.inf, encoded as an integer above every utility: the code only ever
\* compares it with utilities (-1, 0, 1) and tests v == 1 / v == -1.
inf == 2

\* range(3): row and column indices.
Idx == 0 .. 2
Cells == Idx \X Idx

\* How far outside 0..2 the driver's action coordinates go.
Slack == 1
Coords == (0 - Slack) .. (2 + Slack)
ActionInputs == Coords \X Coords

---------------------------------------------------------------------------
(* The board functions, on board values. *)

initial_state == [i \in Idx |-> [j \in Idx |-> EMPTY]]

\* sum(row.count(m) for row in board)
count(brd, m) == Cardinality({c \in Cells : brd[c[1]][c[2]] = m})

player_always_X(brd) == X
player(brd) == IF count(brd, X) = count(brd, O) THEN X ELSE O

actions_all_cells(brd) == Cells
actions(brd) == {c \in Cells : brd[c[1]][c[2]] = EMPTY}

\* Python list indexing: a negative index counts from the end.
index(i) == IF i < 0 THEN i + 3 ELSE i

\* "action not in actions(board)": membership of the pair in the set.
result_rejects_by_cell(brd, action) ==
  IF action[1] \in -3 .. 2 /\ action[2] \in -3 .. 2
    THEN brd[index(action[1])][index(action[2])] # EMPTY
    ELSE TRUE
result_rejects(brd, action) == action \notin actions(brd)

\* The ValueError result raises.
InvalidAction == <<>>

result(brd, action) ==
  IF result_rejects(brd, action) THEN InvalidAction
  ELSE [brd EXCEPT ![index(action[1])][index(action[2])] = player(brd)]

\* a == b == c and a is not None
same3(a, b, c) == a = b /\ b = c /\ a # None

winner_without_columns(brd) ==
  IF same3(brd[0][0], brd[0][1], brd[0][2]) THEN brd[0][0]
  ELSE IF same3(brd[1][0], brd[1][1], brd[1][2]) THEN brd[1][0]
  ELSE IF same3(brd[2][0], brd[2][1], brd[2][2]) THEN brd[2][0]
  ELSE IF same3(brd[0][0], brd[1][1], brd[2][2]) THEN brd[0][0]
  ELSE IF same3(brd[0][2], brd[1][1], brd[2][0]) THEN brd[0][2]
  ELSE None
\* rows, then columns, then the two diagonals; the first complete line wins
winner(brd) ==
  IF same3(brd[0][0], brd[0][1], brd[0][2]) THEN brd[0][0]
  ELSE IF same3(brd[1][0], brd[1][1], brd[1][2]) THEN brd[1][0]
  ELSE IF same3(brd[2][0], brd[2][1], brd[2][2]) THEN brd[2][0]
  ELSE IF same3(brd[0][0], brd[1][0], brd[2][0]) THEN brd[0][0]
  ELSE IF same3(brd[0][1], brd[1][1], brd[2][1]) THEN brd[0][1]
  ELSE IF same3(brd[0][2], brd[1][2], brd[2][2]) THEN brd[0][2]
  ELSE IF same3(brd[0][0], brd[1][1], brd[2][2]) THEN brd[0][0]
  ELSE IF same3(brd[0][2], brd[1][1], brd[2][0]) THEN brd[0][2]
  ELSE None

terminal(brd) == winner(brd) # None \/ Cardinality(actions(brd)) = 0

utility(brd) ==
  LET win == winner(brd)
  IN IF win = X THEN 1 ELSE IF win = O THEN -1 ELSE 0

---------------------------------------------------------------------------
(* result on board objects.  A board object is its three row addresses;    *)
(* the rows live in the heap.                                              *)

Addr == 1 .. 6
\* None where a board object is expected
NoBoard == <<>>
\* None where an action is expected
NoAction == <<>>

\* The value of a board object.
Deref(h, b) == [i \in Idx |-> h[b[i]]]

\* deepcopy(board): three new row objects holding copies of the rows.
fresh(b) ==
  LET free == Addr \ {b[i] : i \in Idx}
      a0 == CHOOSE a \in free : \A c \in free : a <= c
      a1 == CHOOSE a \in free \ {a0} : \A c \in free \ {a0} : a <= c
      a2 == CHOOSE a \in free \ {a0, a1} : \A c \in free \ {a0, a1} : a <= c
  IN [i \in Idx |-> IF i = 0 THEN a0 ELSE IF i = 1 THEN a1 ELSE a2]

shallowcopy(h, b) == [heap |-> h, board |-> b]
deepcopy(h, b) ==
  LET nb == fresh(b)
  IN [heap |-> [a \in DOMAIN h \cup {nb[i] : i \in Idx} |->
                  IF \E i \in Idx : nb[i] = a
                    THEN h[b[CHOOSE i \in Idx : nb[i] = a]]
                    ELSE h[a]],
      board |-> nb]

\* result(board, action) on objects: the heap afterwards, the returned
\* object (NoBoard when it raises) and whether it raised.
result_call(h, b, action) ==
  IF result_rejects(Deref(h, b), action)
    THEN [heap |-> h, ret |-> NoBoard, raised |-> TRUE]
    ELSE LET current_player == player(Deref(h, b))
             copy == deepcopy(h, b)
             row == copy.board[index(action[1])]
         IN [heap |-> [copy.heap EXCEPT ![row][index(action[2])] = current_player],
             ret |-> copy.board,
             raised |-> FALSE]

---------------------------------------------------------------------------
(* The driver of the board functions: it calls result with any action,     *)
(* legal or not, on its current board, terminal or not (result does not    *)
(* look at terminal), and goes on with the board returned.                 *)

ApiInit ==
  /\ heap = [a \in 1 .. 3 |-> [j \in Idx |-> EMPTY]]
  /\ cur = [i \in Idx |-> i + 1]
  /\ out = NoBoard
  /\ raised = FALSE
  /\ legal = TRUE

SearchIdle ==
  /\ board = initial_state
  /\ pc = "idle"
  /\ todo = {}
  /\ best_value = 0
  /\ best_action = NoAction
  /\ ret = NoAction

ResultCall(action) ==
  /\ out = NoBoard
  /\ ~raised
  /\ LET r == result_call(heap, cur, action)
     IN /\ heap' = r.heap
        /\ out' = r.ret
        /\ raised' = r.raised
        /\ legal' = IF r.raised THEN legal ELSE legal /\ ~terminal(Deref(heap, cur))
  /\ UNCHANGED <<cur, searchVars>>

\* The driver catches the ValueError and goes on with the same board.
Catch ==
  /\ raised
  /\ raised' = FALSE
  /\ UNCHANGED <<heap, cur, out, legal, searchVars>>

\* The driver goes on with the returned board and drops the old one.
Adopt ==
  /\ out # NoBoard
  /\ cur' = out
  /\ heap' = [a \in {out[i] : i \in Idx} |-> heap[a]]
  /\ out' = NoBoard
  /\ UNCHANGED <<raised, legal, searchVars>>

ApiNext ==
  \/ \E action \in ActionInputs : ResultCall(action)
  \/ Catch
  \/ Adopt

Init == ApiInit /\ SearchIdle

Spec == Init /\ [][ApiNext]_vars

---------------------------------------------------------------------------
(* max_value and min_value.                                                *)
(*                                                                         *)
(* Both iterate over the set actions(board), in an order the program does  *)
(* not control, and stop early; so each is modelled by the SET of values   *)
(* it can return, over all enumeration orders at every level of the        *)
(* recursion.  The recursion is on result(board, action), a board with one *)
(* more mark, so it is tabulated by the number of marks (the ply), deepest *)
(* ply first: search_ply(k, deeper) holds the calls on the boards with k   *)
(* marks, given the table of the boards with k + 1 marks.                  *)

\* Boards as numbers (base 3, cell (i, j) at digit 3 * i + j): the keys of the tables.
digit(m) == IF m = X THEN 1 ELSE IF m = O THEN 2 ELSE 0
mark(d) == IF d = 1 THEN X ELSE IF d = 2 THEN O ELSE EMPTY
code(brd) ==
  digit(brd[0][0]) + 3 * (digit(brd[0][1]) + 3 * (digit(brd[0][2])
  + 3 * (digit(brd[1][0]) + 3 * (digit(brd[1][1]) + 3 * (digit(brd[1][2])
  + 3 * (digit(brd[2][0]) + 3 * (digit(brd[2][1]) + 3 * digit(brd[2][2]))))))))
board_of(n) == [i \in Idx |-> [j \in Idx |-> mark((n \div (3 ^ (3 * i + j))) % 3)]]
Codes == 0 .. (3 ^ 9 - 1)

\* The number of marks of a board on which X has as many marks as O or one
\* more (the boards result produces from initial_state()); -1 for the others.
marks_in(n, m) == Cardinality({p \in 0 .. 8 : (n \div (3 ^ p)) % 3 = digit(m)})
ply ==
  [n \in Codes |->
     IF marks_in(n, X) - marks_in(n, O) \in {0, 1} THEN marks_in(n, X) + marks_in(n, O) ELSE -1]

\* The boards with k marks, as codes.
level(k) == {n \in Codes : ply[n] = k}

max(a, b) == IF a >= b THEN a ELSE b
min(a, b) == IF a <= b THEN a ELSE b

\* "if v == 1: break" and "if v == -1: break"
max_cutoff_at_draw(v) == v >= 0
max_cutoff(v) == v = 1
min_cutoff(v) == v = -1

\* The for loop of max_value.  A loop state is the accumulator v and the
\* actions not yet enumerated, each with the values min_value may return
\* for it (none when the call raises).  states: the loop states some
\* enumeration order reaches after the same number of iterations;
\* returned: the values returned so far.  A loop state ends the loop after
\* the break or when every action is enumerated; from the others the loop
\* goes on with any action not yet enumerated.
RECURSIVE max_loop(_, _)
max_loop(states, returned) ==
  IF states = {} THEN returned
  ELSE LET ended == {s \in states : max_cutoff(s.v) \/ s.todo = {}}
           stepped == UNION { UNION { { [v |-> max(s.v, c), todo |-> s.todo \ {p}] : c \in p[2] }
                                      : p \in s.todo } : s \in states \ ended }
       IN max_loop(stepped, returned \cup {s.v : s \in ended})

\* The for loop of min_value, likewise.
RECURSIVE min_loop(_, _)
min_loop(states, returned) ==
  IF states = {} THEN returned
  ELSE LET ended == {s \in states : min_cutoff(s.v) \/ s.todo = {}}
           stepped == UNION { UNION { { [v |-> min(s.v, c), todo |-> s.todo \ {p}] : c \in p[2] }
                                      : p \in s.todo } : s \in states \ ended }
       IN min_loop(stepped, returned \cup {s.v : s \in ended})

greatest(S) == CHOOSE d \in S : \A e \in S : d >= e

\* One call of max_value and of min_value on a board:
\*   max, min: the values the call can return;
\*   raises:   whether some enumeration order makes result raise below it;
\*   depth:    the deepest nesting of calls below it.
NotCalled == [max |-> {}, min |-> {}, raises |-> FALSE, depth |-> 0]

\* The entry of a board in a table; a board that is not in it (one with
\* the wrong number of marks) counts as not called.
entry(table, brd) ==
  LET n == code(brd)
  IN IF n \in DOMAIN table THEN table[n] ELSE NotCalled

search_ply(k, deeper) ==
  [n \in level(k) |->
     LET b == board_of(n)
     IN IF terminal(b)
          THEN [max |-> {utility(b)}, min |-> {utility(b)}, raises |-> FALSE, depth |-> 0]
          ELSE LET called == {a \in actions(b) : ~result_rejects(b, a)}
                   below == {<<a, entry(deeper, result(b, a))>> : a \in called}
                   failed == {<<a, NotCalled>> : a \in actions(b) \ called}
               IN [max |-> max_loop({[v |-> -inf,
                                      todo |-> {<<p[1], p[2].min>> : p \in below \cup failed}]}, {}),
                   min |-> min_loop({[v |-> inf,
                                      todo |-> {<<p[1], p[2].max>> : p \in below \cup failed}]}, {}),
                   raises |-> failed # {} \/ \E p \in below : p[2].raises,
                   depth |-> 1 + greatest({0} \cup {p[2].depth : p \in below})]]

search_9 == search_ply(9, <<>>)
search_8 == search_ply(8, search_9)
search_7 == search_ply(7, search_8)
search_6 == search_ply(6, search_7)
search_5 == search_ply(5, search_6)
search_4 == search_ply(4, search_5)
search_3 == search_ply(3, search_4)
search_2 == search_ply(2, search_3)
search_1 == search_ply(1, search_2)
search_0 == search_ply(0, search_1)

\* The ten tables as one.
search_all ==
  [n \in {m \in Codes : ply[m] >= 0} |->
     CASE ply[n] = 0 -> search_0[n] [] ply[n] = 1 -> search_1[n] [] ply[n] = 2 -> search_2[n]
       [] ply[n] = 3 -> search_3[n] [] ply[n] = 4 -> search_4[n] [] ply[n] = 5 -> search_5[n]
       [] ply[n] = 6 -> search_6[n] [] ply[n] = 7 -> search_7[n] [] ply[n] = 8 -> search_8[n]
       [] OTHER -> search_9[n]]

search(brd) == entry(search_all, brd)

\* The values max_value(board) and min_value(board) can return.
max_value(brd) == search(brd).max
min_value(brd) == search(brd).min

---------------------------------------------------------------------------
(* minimax, as the driver sees it: the call, the iterations of its for     *)
(* loop (any action not yet enumerated may come next), the return.         *)

\* best_value = -math.inf for X, math.inf for O
worst_is_losing(current) == IF current = X THEN -1 ELSE 1
worst(current) == IF current = X THEN -inf ELSE inf

\* min_value(result(board, action)) for X, max_value(...) for O
child_values_same_side(current, brd) == IF current = X THEN max_value(brd) ELSE min_value(brd)
child_values(current, brd) == IF current = X THEN min_value(brd) ELSE max_value(brd)

\* "if value > best_value" for X, "if value < best_value" for O
better_or_equal(current, value, best) == IF current = X THEN value >= best ELSE value <= best
better(current, value, best) == IF current = X THEN value > best ELSE value < best

\* The driver makes any move on a board that is not terminal.
Move(action) ==
  /\ pc = "idle"
  /\ ~terminal(board)
  /\ action \in actions(board)
  /\ board' = result(board, action)
  /\ UNCHANGED <<pc, todo, best_value, best_action, ret, apiVars>>

MinimaxCall ==
  /\ pc = "idle"
  /\ IF terminal(board)
       THEN /\ pc' = "returned"
            /\ ret' = NoAction
            /\ UNCHANGED <<todo, best_value, best_action>>
       ELSE /\ pc' = "loop"
            /\ best_value' = worst(player(board))
            /\ best_action' = NoAction
            /\ todo' = actions(board)
            /\ ret' = ret
  /\ UNCHANGED <<board, apiVars>>

\* One iteration: the next action enumerated, the value of its board.
MinimaxIter ==
  /\ pc = "loop"
  /\ \E action \in todo :
       IF result_rejects(board, action)
         THEN /\ pc' = "raised"
              /\ UNCHANGED <<todo, best_value, best_action>>
         ELSE \E value \in child_values(player(board), result(board, action)) :
                /\ todo' = todo \ {action}
                /\ IF better(player(board), value, best_value)
                     THEN best_value' = value /\ best_action' = action
                     ELSE UNCHANGED <<best_value, best_action>>
                /\ pc' = pc
  /\ UNCHANGED <<board, ret, apiVars>>

MinimaxReturn ==
  /\ pc = "loop"
  /\ todo = {}
  /\ pc' = "returned"
  /\ ret' = best_action
  /\ UNCHANGED <<board, todo, best_value, best_action, apiVars>>

\* The driver plays the action minimax returned.
Play ==
  /\ pc = "returned"
  /\ ret # NoAction
  /\ IF result_rejects(board, ret)
       THEN pc' = "raised" /\ board' = board
       ELSE pc' = "idle" /\ board' = result(board, ret)
  /\ UNCHANGED <<todo, best_value, best_action, ret, apiVars>>

\* minimax called on every board a game can reach
SearchNext ==
  \/ \E action \in Cells : Move(action)
  \/ MinimaxCall
  \/ MinimaxIter
  \/ MinimaxReturn

SearchSpec == Init /\ [][SearchNext]_vars

\* minimax playing both sides from initial_state()
PlayNext ==
  \/ MinimaxCall
  \/ MinimaxIter
  \/ MinimaxReturn
  \/ Play

PlaySpec == Init /\ [][PlayNext]_vars

---------------------------------------------------------------------------
(* The exact game value, for reference: exhaustive minimax with no early   *)
(* exit, over the successors written out (the mover's mark on an empty     *)
(* cell), tabulated by ply like the search.                                *)

least(S) == CHOOSE d \in S : \A e \in S : d <= e

successors(b) ==
  LET mover == IF count(b, X) = count(b, O) THEN X ELSE O
  IN {[b EXCEPT ![c[1]][c[2]] = mover] : c \in {d \in Cells : b[d[1]][d[2]] = EMPTY}}

exact_ply(k, deeper) ==
  [n \in level(k) |->
     LET b == board_of(n)
     IN IF terminal(b) \/ successors(b) = {}
          THEN [max |-> utility(b), min |-> utility(b)]
          ELSE LET below == {deeper[code(c)] : c \in successors(b)}
               IN [max |-> greatest({e.min : e \in below}),
                   min |-> least({e.max : e \in below})]]

exact_9 == exact_ply(9, <<>>)
exact_8 == exact_ply(8, exact_9)
exact_7 == exact_ply(7, exact_8)
exact_6 == exact_ply(6, exact_7)
exact_5 == exact_ply(5, exact_6)
exact_4 == exact_ply(4, exact_5)
exact_3 == exact_ply(3, exact_4)
exact_2 == exact_ply(2, exact_3)
exact_1 == exact_ply(1, exact_2)
exact_0 == exact_ply(0, exact_1)

exact_all ==
  [n \in {m \in Codes : ply[m] >= 0} |->
     CASE ply[n] = 0 -> exact_0[n] [] ply[n] = 1 -> exact_1[n] [] ply[n] = 2 -> exact_2[n]
       [] ply[n] = 3 -> exact_3[n] [] ply[n] = 4 -> exact_4[n] [] ply[n] = 5 -> exact_5[n]
       [] ply[n] = 6 -> exact_6[n] [] ply[n] = 7 -> exact_7[n] [] ply[n] = 8 -> exact_8[n]
       [] OTHER -> exact_9[n]]

exact(brd) == exact_all[code(brd)]

\* The value of a board for the player to move on it.
game_value(brd) ==
  IF count(brd, X) = count(brd, O) THEN exact(brd).max ELSE exact(brd).min

empties(brd) == Cardinality({c \in Cells : brd[c[1]][c[2]] = EMPTY})

\* The eight lines, and whether mark m fills one of them.
Lines ==
  {{<<i, 0>>, <<i, 1>>, <<i, 2>>} : i \in Idx} \cup {{<<0, j>>, <<1, j>>, <<2, j>>} : j \in Idx}
    \cup {{<<0, 0>>, <<1, 1>>, <<2, 2>>}, {<<0, 2>>, <<1, 1>>, <<2, 0>>}}
has_line(brd, m) == \E l \in Lines : \A c \in l : brd[c[1]][c[2]] = m

\* The board the driver holds, and the one result returned, as values.
cur_board == Deref(heap, cur)
out_board == Deref(heap, out)

---------------------------------------------------------------------------
(* The claims. *)

\* C1: on every non-terminal board a game reaches, whatever the enumeration
\* order, the action minimax returns is legal and optimal: the exact value
\* of the board it leads to is the exact value of the board.
C1_MinimaxOptimal ==
  (pc = "returned" /\ ~terminal(board)) =>
     /\ ret \in actions(board)
     /\ game_value(result(board, ret)) = game_value(board)

\* C1 witness: minimax has returned on a board where some legal action is
\* not optimal.
C1_Witness ==
  /\ pc = "returned"
  /\ ~terminal(board)
  /\ ret \in actions(board)
  /\ \E a \in actions(board) : game_value(result(board, a)) # game_value(board)

\* What is left of a game minimax plays against itself: the empty cells,
\* and within one call the position of the call and the actions not yet enumerated.
play_left ==
  12 * empties(board)
    + (CASE pc = "idle" -> 11 [] pc = "loop" -> 1 + Cardinality(todo) [] OTHER -> 0)

\* C2: minimax playing both sides from initial_state() ends, and ends in a
\* draw: every step brings the end nearer (play_left decreases), the play
\* stops at no board that is not terminal, and every terminal board it
\* reaches has utility 0 and no winner.
C2_SelfPlayDraw ==
  /\ [][play_left' < play_left]_vars
  /\ [](terminal(board) \/ ENABLED PlayNext)
  /\ [](terminal(board) => (utility(board) = 0 /\ winner(board) = None))

\* C2 witness: self-play has ended on a full board and minimax returns None there.
C2_Witness ==
  /\ terminal(board)
  /\ empties(board) = 0
  /\ pc = "returned"
  /\ ret = NoAction

\* The board of C3: X at (0,0) and (0,1), O at (1,0); O is to move.
Board3 ==
  [i \in Idx |-> [j \in Idx |->
     IF <<i, j>> \in {<<0, 0>>, <<0, 1>>} THEN X ELSE IF <<i, j>> = <<1, 0>> THEN O ELSE EMPTY]]

\* C3 as stated: on Board3 minimax returns (0,2), whatever the enumeration order.
C3_ReturnsBlock ==
  (board = Board3 /\ pc = "returned") => ret = <<0, 2>>

\* C3 as amended: on Board3 minimax returns the action enumerated first: the
\* first iteration takes the enumerated action as best_action, no later
\* iteration replaces it (every move of O, the block included, leaves a
\* board of value 1), and it is what minimax returns.
C3_ReturnsFirstEnumerated ==
  [][(board = Board3 /\ pc = "loop") =>
       /\ (pc' = "loop" /\ best_action = NoAction) =>
            (best_action' \in todo /\ todo' = todo \ {best_action'})
       /\ (pc' = "loop" /\ best_action # NoAction) => best_action' = best_action
       /\ pc' \in {"loop", "returned"}
       /\ pc' = "returned" => (ret' = best_action /\ best_action \in actions(Board3))]_vars

\* C3 witness: minimax has returned on Board3, and not the block.
C3_Witness ==
  /\ board = Board3
  /\ pc = "returned"
  /\ ret = <<1, 2>>

\* An action outside actions(board), said without actions: a coordinate
\* outside 0..2, or an occupied cell.
illegal(brd, action) ==
  \/ action[1] \notin Idx
  \/ action[2] \notin Idx
  \/ brd[action[1]][action[2]] # EMPTY

\* C4: result called with an action that is not in actions(board) raises,
\* returns no board, and leaves the input board as it was.
C4_IllegalActionRaises ==
  [][\A action \in ActionInputs :
       (ResultCall(action) /\ illegal(cur_board, action)) =>
          /\ raised'
          /\ out' = NoBoard
          /\ cur' = cur
          /\ Deref(heap', cur') = cur_board]_vars

\* C4 witness: result has raised on a board that holds marks and has empty cells.
C4_Witness ==
  /\ raised
  /\ out = NoBoard
  /\ empties(cur_board) \in 1 .. 8

\* C5: result called with a legal action (i, j) returns a board that holds
\* player(board)'s mark at (i, j) and the input's marks elsewhere (one more
\* occupied cell); the input board is unchanged, and the two boards share no
\* row object, so a later change to one cannot show in the other.
C5_ResultFrame ==
  [][\A action \in ActionInputs :
       (ResultCall(action) /\ ~illegal(cur_board, action)) =>
          /\ ~raised'
          /\ out' # NoBoard
          /\ LET new == Deref(heap', out')
             IN /\ new[action[1]][action[2]] = player(cur_board)
                /\ \A c \in Cells \ {action} : new[c[1]][c[2]] = cur_board[c[1]][c[2]]
                /\ empties(new) = empties(cur_board) - 1
                /\ new = result(cur_board, action)
          /\ cur' = cur
          /\ Deref(heap', cur') = cur_board
          /\ {out'[i] : i \in Idx} \cap {cur'[i] : i \in Idx} = {}
          /\ Cardinality({out'[i] : i \in Idx}) = 3]_vars

\* C5 witness: result has returned a board with several marks; the input is still held.
C5_Witness ==
  /\ out # NoBoard
  /\ ~raised
  /\ empties(out_board) = 5
  /\ empties(cur_board) = 6

\* C6 for one board: X has as many marks as O or one more, player is X
\* exactly when they are equal, and every legal move hands the turn over.
turn_ok(brd) ==
  /\ count(brd, X) - count(brd, O) \in {0, 1}
  /\ player(brd) = X <=> count(brd, X) = count(brd, O)
  /\ player(brd) \in {X, O}
  /\ \A a \in actions(brd) : player(result(brd, a)) # player(brd)

\* C6: on every board produced from initial_state() by successful result
\* calls the turn is as turn_ok says, and player(initial_state()) is X.
C6_TurnAlternates ==
  /\ turn_ok(cur_board)
  /\ out # NoBoard => turn_ok(out_board)
  /\ player(initial_state) = X

\* C6 witness: result has returned a board on which it is O's turn, after several moves.
C6_Witness ==
  /\ out # NoBoard
  /\ count(out_board, X) = 3
  /\ count(out_board, O) = 2
  /\ player(out_board) = O

\* C7 as stated: no board produced by successful result calls holds a
\* complete line of X and a complete line of O.
C7_NoDoubleWin ==
  /\ ~(has_line(cur_board, X) /\ has_line(cur_board, O))
  /\ out # NoBoard => ~(has_line(out_board, X) /\ has_line(out_board, O))

\* C7 as amended: the same, of the boards produced by successful result
\* calls made on non-terminal boards only.
C7_NoDoubleWinInPlay ==
  legal => C7_NoDoubleWin

\* C7 witness: result calls on non-terminal boards have produced a won board.
C7_Witness ==
  /\ legal
  /\ out # NoBoard
  /\ has_line(out_board, O)

\* C8: minimax returns None exactly on the terminal boards, and a member of
\* actions(board) on the others, initial_state() among them.
C8_NoneIffTerminal ==
  pc = "returned" =>
     /\ ret = NoAction <=> terminal(board)
     /\ ~terminal(board) => ret \in actions(board)

\* C8 witness: minimax has returned an action on a board its player has lost.
C8_Witness ==
  /\ pc = "returned"
  /\ ~terminal(board)
  /\ ret \in actions(board)
  /\ player(board) = X
  /\ game_value(board) = -1

\* C9: on every board a game reaches, whatever the enumeration order,
\* max_value and min_value with their early exits return the value of the
\* recursion without early exit, one of -1, 0, 1.
C9_EarlyExitSound ==
  /\ max_value(board) = {exact(board).max}
  /\ min_value(board) = {exact(board).min}
  /\ max_value(board) \cup min_value(board) \subseteq {-1, 0, 1}

\* C9 witness: a board where max_value can stop early (its value is 1) and
\* can also first meet an action of smaller value.
C9_Witness ==
  /\ ~terminal(board)
  /\ max_value(board) = {1}
  /\ \E a \in actions(board) : min_value(result(board, a)) = {-1}

\* C10: on every board a game reaches, no call of minimax, max_value or
\* min_value raises; each recursive call is on a board with one empty cell
\* fewer, and the nesting of calls is at most the number of empty cells.
C10_SearchTerminates ==
  /\ ~search(board).raises
  /\ search(board).depth <= empties(board)
  /\ empties(board) <= 9
  /\ pc # "raised"
  /\ pc = "loop" => todo \subseteq actions(board)
  /\ \A a \in actions(board) :
       /\ ~result_rejects(board, a)
       /\ empties(result(board, a)) = empties(board) - 1

\* C10 witness: minimax has returned on the empty board, where the calls nest nine deep.
C10_Witness ==
  /\ board = initial_state
  /\ pc = "returned"
  /\ search(board).depth = 9

=============================================================================
